---- MODULE Spec2Model ----
(***************************************************************************)
(* A model of the weather facade of src/src/weatherApi.ts (class           *)
(* OpenMeteoAPI): one call of getWeatherByCity, getWeatherAndForecast or   *)
(* getCoordinatesByCity, the external requests it issues, the responses    *)
(* the services may give, and the formatting of the payload into the       *)
(* current-conditions record and the forecast.                             *)
(*                                                                         *)
(* Numbers.  A JavaScript number is a record [kind, v]: kind "number"      *)
(* carries the value v, the other kinds are undefined, NaN, Infinity and   *)
(* -Infinity.  Temperatures and wind speeds are fixed point, in tenths of  *)
(* the unit (21.5 degrees is 215); humidity, pressure (hPa), cloud cover   *)
(* and visibility are whole numbers.                                       *)
(*                                                                         *)
(* Time.  A time string of the payload is a record [dateOnly, day, hour]:  *)
(* "2024-01-03" is [dateOnly |-> TRUE, day |-> 3, hour |-> 0] and          *)
(* "2024-01-03T10:00" is [dateOnly |-> FALSE, day |-> 3, hour |-> 10].     *)
(* A Date object is an instant, counted in hours of UTC.  The environment  *)
(* has a timezone offset tz (hours east of UTC).                           *)
(*                                                                         *)
(* The user-facing messages of the source are Russian; the model carries   *)
(* their English translation.                                              *)
(***************************************************************************)
EXTENDS Integers, Sequences, FiniteSets, TLC

VARIABLES
    tz,          \* timezone offset of the running environment, hours east of UTC
    currentHour, \* new Date().getHours() at the time the payload is formatted
    pc,          \* position of the call: idle, awaitSearch, awaitForecast, awaitReverse, done
    entry,       \* the facade method called
    cityName,    \* argument of getWeatherByCity / getCoordinatesByCity
    coords,      \* the coordinates the forecast is fetched for (Absent before)
    requests,    \* the external requests issued by the call, in order
    searchReply, \* what the search endpoint answered (Absent before)
    data,        \* response.data of the forecast request (Absent before)
    reverseReply,\* what the reverse endpoint answered (Absent before)
    units,       \* the units argument of the call
    result,      \* how the call settled: a value or a thrown Error (Absent before)
    \* a call of one of the pure functions of the class
    arg,         \* its integer argument
    called,      \* the function called ("" before)
    returned,    \* the value it returned (Absent before)
    \* the refs of the component WeatherDisplay.vue
    searchCity,
    loading,
    errorRef,    \* the ref named error
    currentWeather,
    forecast,
    selectedDay,
    calls        \* the getWeatherByCity calls searchWeather started, in
                 \* order: the city of each and how it settled (Absent
                 \* while it is in flight)

facadeVars == <<tz, currentHour, pc, entry, cityName, coords, requests,
                searchReply, data, reverseReply, units, result>>

pureVars == <<arg, called, returned>>

uiVars == <<searchCity, loading, errorRef, currentWeather, forecast, selectedDay,
            calls>>

vars == <<facadeVars, pureVars, uiVars>>

(***************************************************************************)
(* Bounds of the model.                                                    *)
(***************************************************************************)
MaxDays == 7        \* longest daily axis (the provider's default is 7 days)
ShortAxis == 5      \* length of an hourly axis shorter than one day
StartDay == 10      \* calendar day of the first entry of the axes

(***************************************************************************)
(* Optional values: an absent property is <<>>, a present one <<x>>.       *)
(***************************************************************************)
Absent == <<>>
Some(x) == <<x>>
Get(o) == o[1]

(***************************************************************************)
(* JavaScript numbers.                                                     *)
(***************************************************************************)
Num(x) == [kind |-> "number", v |-> x]
Undefined == [kind |-> "undefined", v |-> 0]
NaN == [kind |-> "NaN", v |-> 0]
PosInfinity == [kind |-> "Infinity", v |-> 0]
NegInfinity == [kind |-> "-Infinity", v |-> 0]

IsNumber(n) == n.kind = "number"

\* arr[i] with a zero-based index: undefined outside the array
At(arr, i) == IF i >= 0 /\ i < Len(arr) THEN Num(arr[i + 1]) ELSE Undefined

\* Math.round of a whole number
MathRound(n) ==
    CASE n.kind = "number" -> n
      [] n.kind \in {"Infinity", "-Infinity"} -> n
      [] OTHER -> NaN

\* Math.round of a number given in tenths: floor(x + 0.5)
MathRound10(n) ==
    CASE n.kind = "number" -> Num((n.v + 5) \div 10)
      [] n.kind \in {"Infinity", "-Infinity"} -> n
      [] OTHER -> NaN

\* Math.round(hPa * 0.750062)
PressureMmHg(n) ==
    CASE n.kind = "number" -> Num((n.v * 750062 + 500000) \div 1000000)
      [] n.kind \in {"Infinity", "-Infinity"} -> n
      [] OTHER -> NaN

RECURSIVE SeqMin(_)
SeqMin(s) ==
    IF Len(s) = 1 THEN s[1]
    ELSE LET m == SeqMin(Tail(s)) IN IF s[1] < m THEN s[1] ELSE m

RECURSIVE SeqMax(_)
SeqMax(s) ==
    IF Len(s) = 1 THEN s[1]
    ELSE LET m == SeqMax(Tail(s)) IN IF s[1] > m THEN s[1] ELSE m

\* Math.min(...arr) and Math.max(...arr)
MathMin(arr) == IF Len(arr) = 0 THEN PosInfinity ELSE Num(SeqMin(arr))
MathMax(arr) == IF Len(arr) = 0 THEN NegInfinity ELSE Num(SeqMax(arr))

(***************************************************************************)
(* Dates.                                                                  *)
(***************************************************************************)
HoursPerDay == 24

InvalidDate == [kind |-> "InvalidDate", v |-> 0]

\* new Date(s): a date-only string is read as UTC midnight, a date-time
\* string without offset as local time; new Date(undefined) is invalid
NewDate(s, zone) ==
    IF s = Absent THEN InvalidDate
    ELSE LET t == Get(s) IN
         [kind |-> "Date",
          v |-> IF t.dateOnly THEN t.day * HoursPerDay
                ELSE t.day * HoursPerDay + t.hour - zone]

\* arr[i] of an array of time strings
TimeAt(arr, i) == IF i >= 0 /\ i < Len(arr) THEN Some(arr[i + 1]) ELSE Absent

\* Date.prototype.toDateString(): the calendar day in local time
toDateString(d, zone) ==
    IF d.kind = "Date" THEN [kind |-> "day", v |-> (d.v + zone) \div HoursPerDay]
    ELSE [kind |-> "Invalid Date", v |-> 0]

(***************************************************************************)
(* Weather code classification.                                            *)
(***************************************************************************)
weatherCodes ==
    (0 :> "Clear") @@ (1 :> "Mainly clear") @@ (2 :> "Partly cloudy") @@
    (3 :> "Overcast") @@ (45 :> "Fog") @@ (48 :> "Rime fog") @@
    (51 :> "Light drizzle") @@ (53 :> "Moderate drizzle") @@
    (55 :> "Dense drizzle") @@ (61 :> "Light rain") @@
    (63 :> "Moderate rain") @@ (65 :> "Heavy rain") @@ (71 :> "Light snow") @@
    (73 :> "Moderate snow") @@ (75 :> "Heavy snow") @@ (77 :> "Snow grains") @@
    (80 :> "Light showers") @@ (81 :> "Moderate showers") @@
    (82 :> "Violent showers") @@ (95 :> "Thunderstorm") @@
    (96 :> "Thunderstorm with hail") @@ (99 :> "Heavy thunderstorm with hail")

iconMap ==
    (0 :> "01d") @@ (1 :> "02d") @@ (2 :> "03d") @@ (3 :> "04d") @@
    (45 :> "50d") @@ (48 :> "50d") @@
    (51 :> "09d") @@ (53 :> "09d") @@ (55 :> "09d") @@
    (61 :> "10d") @@ (63 :> "10d") @@ (65 :> "10d") @@
    (71 :> "13d") @@ (73 :> "13d") @@ (75 :> "13d") @@ (77 :> "13d") @@
    (80 :> "09d") @@ (81 :> "09d") @@ (82 :> "09d") @@
    (95 :> "11d") @@ (96 :> "11d") @@ (99 :> "11d")

\* (mutant) the code itself is tested for truth: code 0 takes the fallback
getWeatherDescription_FalsyCode(code) ==
    IF code # 0 /\ code \in DOMAIN weatherCodes /\ weatherCodes[code] # ""
    THEN weatherCodes[code] ELSE "Unknown"

\* weatherCodes[code] || 'Unknown': a missing key and an empty string are falsy
getWeatherDescription(code) ==
    IF code \in DOMAIN weatherCodes /\ weatherCodes[code] # ""
    THEN weatherCodes[code] ELSE "Unknown"

getWeatherIcon(code) ==
    IF code \in DOMAIN iconMap /\ iconMap[code] # ""
    THEN iconMap[code] ELSE "01d"

getWeatherIconUrl(code) ==
    <<"https://openweathermap.org/img/wn/", getWeatherIcon(code), "@2x.png">>

(***************************************************************************)
(* Errors.  An error object has a name and a message; an AxiosError may    *)
(* also carry the response (its HTTP status) and the request.              *)
(***************************************************************************)
NewError(msg) ==
    [name |-> "Error", message |-> msg, response |-> Absent, request |-> FALSE]

TypeError(prop) ==
    [name |-> "TypeError",
     message |-> "Cannot read properties of undefined (reading '" \o prop \o "')",
     response |-> Absent, request |-> FALSE]

\* axios rejects with the response when the status is not 2xx
AxiosResponseError(status) ==
    [name |-> "AxiosError", message |-> "Request failed with status code",
     response |-> Some([status |-> status]), request |-> TRUE]

\* the request was sent and no response came (network down, timeout)
AxiosNetworkError ==
    [name |-> "AxiosError", message |-> "Network Error",
     response |-> Absent, request |-> TRUE]

MsgNotFound == "Data not found"
MsgRateLimit == "Rate limit exceeded"
MsgServer == "Server error"
MsgNoConnection == "No connection to server"
MsgCityNotFound == "City not found"
MsgUnknown == "Unknown error"

handleError(error) ==
    IF error.response # Absent
    THEN CASE Get(error.response).status = 404 -> NewError(MsgNotFound)
           [] Get(error.response).status = 429 -> NewError(MsgRateLimit)
           [] OTHER -> NewError(MsgServer)
    ELSE IF error.request
    THEN NewError(MsgNoConnection)
    ELSE NewError(IF error.message # "" THEN error.message ELSE MsgUnknown)

\* How an evaluation ends: a value, or a thrown error
Returned(x) == [ok |-> TRUE, value |-> Some(x), error |-> Absent]
Thrown(e) == [ok |-> FALSE, value |-> Absent, error |-> Some(e)]

(***************************************************************************)
(* formatCurrentWeather                                                    *)
(***************************************************************************)
Min2(a, b) == IF a < b THEN a ELSE b

\* The property read that throws first, or "" when the payload has the
\* snapshot and both axes
formatCurrentWeatherThrows(payload) ==
    CASE payload.current_weather = Absent -> "temperature"
      [] payload.daily = Absent -> "temperature_2m_min"
      [] payload.hourly = Absent -> "apparent_temperature"
      [] OTHER -> ""

\* (mutant) the day's minimum and maximum read at todayIndex only
formatCurrentWeather_TodayOnly(payload, location, hour, zone) ==
    LET current == Get(payload.current_weather)
        daily == Get(payload.daily)
        hourly == Get(payload.hourly)
        todayIndex == 0
    IN  [temp |-> MathRound10(Num(current.temperature)),
         tempMin |-> MathRound10(At(daily.temperature_2m_min, todayIndex)),
         tempMax |-> MathRound10(At(daily.temperature_2m_max, todayIndex)),
         feelsLike |-> MathRound10(At(hourly.apparent_temperature, hour)),
         humidity |-> MathRound(At(hourly.relative_humidity_2m, hour)),
         pressure |-> PressureMmHg(At(hourly.pressure_msl, hour)),
         windSpeed |-> Num(current.windspeed),
         windDeg |-> Num(current.winddirection),
         clouds |-> MathRound(At(hourly.cloudcover, hour)),
         visibility |-> MathRound(At(hourly.visibility, hour)),
         description |-> getWeatherDescription(current.weathercode),
         icon |-> getWeatherIcon(current.weathercode),
         iconUrl |-> getWeatherIconUrl(current.weathercode),
         cityName |-> location.city,
         country |-> location.country,
         sunrise |-> NewDate(TimeAt(daily.sunrise, todayIndex), zone),
         sunset |-> NewDate(TimeAt(daily.sunset, todayIndex), zone),
         dt |-> NewDate(Some(current.time), zone)]

formatCurrentWeather(payload, location, hour, zone) ==
    LET current == Get(payload.current_weather)
        daily == Get(payload.daily)
        hourly == Get(payload.hourly)
        todayIndex == 0
    IN  [temp |-> MathRound10(Num(current.temperature)),
         tempMin |-> MathRound10(MathMin(daily.temperature_2m_min)),
         tempMax |-> MathRound10(MathMax(daily.temperature_2m_max)),
         feelsLike |-> MathRound10(At(hourly.apparent_temperature, hour)),
         humidity |-> MathRound(At(hourly.relative_humidity_2m, hour)),
         pressure |-> PressureMmHg(At(hourly.pressure_msl, hour)),
         windSpeed |-> Num(current.windspeed),
         windDeg |-> Num(current.winddirection),
         clouds |-> MathRound(At(hourly.cloudcover, hour)),
         visibility |-> MathRound(At(hourly.visibility, hour)),
         description |-> getWeatherDescription(current.weathercode),
         icon |-> getWeatherIcon(current.weathercode),
         iconUrl |-> getWeatherIconUrl(current.weathercode),
         cityName |-> location.city,
         country |-> location.country,
         sunrise |-> NewDate(TimeAt(daily.sunrise, todayIndex), zone),
         sunset |-> NewDate(TimeAt(daily.sunset, todayIndex), zone),
         dt |-> NewDate(Some(current.time), zone)]

(***************************************************************************)
(* formatForecast                                                          *)
(***************************************************************************)
ForecastDays == 5

RECURSIVE SumOf(_)
SumOf(s) == IF Len(s) = 0 THEN 0 ELSE s[1].v + SumOf(Tail(s))

\* Math.round(s.reduce((sum, h) => sum + h, 0) / s.length): 0 / 0 is NaN
RoundedMean(s) ==
    IF Len(s) = 0 THEN NaN
    ELSE IF \E k \in 1..Len(s) : ~IsNumber(s[k]) THEN NaN
    ELSE Num((2 * SumOf(s) + Len(s)) \div (2 * Len(s)))

\* the hourly sample built at the zero-based index of the hourly axis
HourlySample(hourly, index, zone) ==
    [dt |-> NewDate(TimeAt(hourly.time, index), zone),
     temp |-> MathRound10(At(hourly.temperature_2m, index)),
     feelsLike |-> MathRound10(At(hourly.apparent_temperature, index)),
     humidity |-> MathRound(At(hourly.relative_humidity_2m, index)),
     pressure |-> PressureMmHg(At(hourly.pressure_msl, index)),
     windSpeed |-> At(hourly.windspeed_10m, index),
     windDeg |-> At(hourly.winddirection_10m, index),
     clouds |-> MathRound(At(hourly.cloudcover, index)),
     description |-> getWeatherDescription(hourly.weathercode[index + 1]),
     icon |-> getWeatherIcon(hourly.weathercode[index + 1]),
     iconUrl |-> getWeatherIconUrl(hourly.weathercode[index + 1])]

\* (mutant) a loop over the whole daily axis
DayCount_NoCap(daily) == Len(daily.time)

\* the loop's upper limit, Math.min(5, data.daily.time.length)
DayCount(daily) == Min2(ForecastDays, Len(daily.time))

\* (mutant) a bucket by a 24-hour rolling window from the day's instant
DayIndices_Window(daily, hourly, i, zone) ==
    LET date == NewDate(TimeAt(daily.time, i), zone)
        Near(index) ==
            LET t == NewDate(TimeAt(hourly.time, index), zone).v
            IN  t >= date.v - 1 /\ t <= date.v + HoursPerDay
    IN  SelectSeq([k \in 1..Len(hourly.time) |-> k - 1], Near)

\* the zero-based indices of the hourly axis the forEach keeps for the day
\* at index i of the daily axis, in the order of the axis
DayIndices(daily, hourly, i, zone) ==
    LET date == NewDate(TimeAt(daily.time, i), zone)
        Same(index) ==
            toDateString(NewDate(TimeAt(hourly.time, index), zone), zone)
                = toDateString(date, zone)
    IN  SelectSeq([k \in 1..Len(hourly.time) |-> k - 1], Same)

\* one pass of the loop body: the DailyForecast pushed for index i
DailyForecast(daily, hourly, i, zone) ==
    LET idx == DayIndices(daily, hourly, i, zone)
        hourlyData == [k \in 1..Len(idx) |-> HourlySample(hourly, idx[k], zone)]
        humidities == [k \in 1..Len(idx) |-> hourlyData[k].humidity]
        pressures == [k \in 1..Len(idx) |-> hourlyData[k].pressure]
        windSpeeds == [k \in 1..Len(idx) |-> hourlyData[k].windSpeed]
        tmin == daily.temperature_2m_min[i + 1]
        tmax == daily.temperature_2m_max[i + 1]
    IN  [date |-> NewDate(TimeAt(daily.time, i), zone),
         tempMin |-> MathRound10(Num(tmin)),
         tempMax |-> MathRound10(Num(tmax)),
         tempAvg |-> Num((tmin + tmax + 10) \div 20),
         humidity |-> RoundedMean(humidities),
         pressure |-> RoundedMean(pressures),
         windSpeed |-> RoundedMean(windSpeeds),
         description |-> getWeatherDescription(daily.weathercode[i + 1]),
         icon |-> getWeatherIcon(daily.weathercode[i + 1]),
         iconUrl |-> getWeatherIconUrl(daily.weathercode[i + 1]),
         hourly |-> hourlyData]

\* The property read that throws first, or ""
formatForecastThrows(payload) ==
    CASE payload.daily = Absent -> "time"
      [] Len(Get(payload.daily).time) > 0 /\ payload.hourly = Absent -> "time"
      [] OTHER -> ""

formatForecast(payload, location, zone) ==
    LET daily == Get(payload.daily)
        hourly == Get(payload.hourly)
    IN  [city |-> location.city,
         country |-> location.country,
         forecast |-> [k \in 1..DayCount(daily) |->
                          DailyForecast(daily, hourly, k - 1, zone)]]

(***************************************************************************)
(* The payloads the forecast endpoint may answer with.  The axes start at  *)
(* midnight of StartDay; the daily axis has one entry per day and the      *)
(* hourly axis one entry per hour, all arrays of an axis of equal length.  *)
(***************************************************************************)
SampleCodes == <<0, 1, 2, 3, 45, 61, 95, 4>>

DailyAxis(n, cold, warm) ==
    [time |-> [d \in 1..n |->
                 [dateOnly |-> TRUE, day |-> StartDay + d - 1, hour |-> 0]],
     temperature_2m_min |-> [d \in 1..n |-> IF d = cold THEN -35 ELSE 40 + 10 * d],
     temperature_2m_max |-> [d \in 1..n |-> IF d = warm THEN 315 ELSE 150 + 10 * d],
     sunrise |-> [d \in 1..n |->
                 [dateOnly |-> FALSE, day |-> StartDay + d - 1, hour |-> 7]],
     sunset |-> [d \in 1..n |->
                 [dateOnly |-> FALSE, day |-> StartDay + d - 1, hour |-> 18]],
     weathercode |-> [d \in 1..n |-> SampleCodes[(d % Len(SampleCodes)) + 1]]]

HourlyAxis(m) ==
    [time |-> [k \in 1..m |->
                 [dateOnly |-> FALSE,
                  day |-> StartDay + ((k - 1) \div HoursPerDay),
                  hour |-> (k - 1) % HoursPerDay]],
     temperature_2m |-> [k \in 1..m |-> 100 + ((k * 7) % 53)],
     apparent_temperature |-> [k \in 1..m |-> 85 + ((k * 7) % 53)],
     relative_humidity_2m |-> [k \in 1..m |-> 40 + ((k * 11) % 60)],
     pressure_msl |-> [k \in 1..m |-> 990 + ((k * 3) % 40)],
     cloudcover |-> [k \in 1..m |-> (k * 13) % 101],
     visibility |-> [k \in 1..m |-> 1000 * (k % 25)],
     windspeed_10m |-> [k \in 1..m |-> (k * 17) % 120],
     winddirection_10m |-> [k \in 1..m |-> (k * 45 + 10) % 360],
     weathercode |-> [k \in 1..m |-> SampleCodes[(k % Len(SampleCodes)) + 1]]]

CurrentWeather ==
    [temperature |-> 153, windspeed |-> 42, winddirection |-> 200,
     weathercode |-> 61,
     time |-> [dateOnly |-> FALSE, day |-> StartDay, hour |-> 10]]

MkPayload(n, m, cold, warm) ==
    [latitude |-> 557558, longitude |-> 376173,
     current_weather |-> Some(CurrentWeather),
     hourly |-> Some(HourlyAxis(m)),
     daily |-> Some(DailyAxis(n, cold, warm))]

\* daily (min, max) pairs (5, 8), (18, 22) over two days
ExamplePayload ==
    [MkPayload(2, 2 * HoursPerDay, 1, 1) EXCEPT
        !.daily = Some([DailyAxis(2, 1, 1) EXCEPT
                          !.temperature_2m_min = <<50, 180>>,
                          !.temperature_2m_max = <<80, 220>>])]

\* every axis shape: daily axes of 0..MaxDays days with an hourly axis that
\* is empty, shorter than a day, covers the days, or one day only
ShapePayloads ==
    {MkPayload(n, m, 1, 1) :
        n \in 0..MaxDays, m \in {0, ShortAxis, HoursPerDay}}
    \cup {MkPayload(n, n * HoursPerDay, 1, n) : n \in 1..MaxDays}

\* the coldest and the warmest day at every position of the daily axis:
\* on the same day, and on days mirrored about the middle of the axis
ValuePayloads ==
    {MkPayload(MaxDays, HoursPerDay, cold, cold) : cold \in 1..MaxDays}
    \cup {MkPayload(MaxDays, HoursPerDay, cold, MaxDays + 1 - cold) :
             cold \in 1..MaxDays}

\* payloads without the snapshot or without an axis
MalformedPayloads ==
    LET p == MkPayload(2, 2 * HoursPerDay, 1, 2)
    IN  {[p EXCEPT !.current_weather = Absent],
         [p EXCEPT !.hourly = Absent],
         [p EXCEPT !.daily = Absent],
         [p EXCEPT !.hourly = Absent, !.daily = Absent]}

Payloads ==
    ShapePayloads \cup ValuePayloads \cup MalformedPayloads \cup {ExamplePayload}

(***************************************************************************)
(* The geocoding service (Nominatim).                                      *)
(***************************************************************************)
Place ==
    [lat |-> "55.7558", lon |-> "37.6173", display_name |-> "Moscow, Russia",
     address |-> Some([city |-> "Moscow", town |-> "", village |-> "",
                       country_code |-> "ru"])]

\* a place the service knows by a village only
Hamlet ==
    [lat |-> "55.7558", lon |-> "37.6173", display_name |-> "Zarya, Russia",
     address |-> Some([city |-> "", town |-> "", village |-> "Zarya",
                       country_code |-> ""])]

CityNames == {"", "  ", "Moscow", "Atlantis"}

\* response.data of /search for a name: the service finds only what it knows
SearchData(name) == IF name = "Moscow" THEN {<<Place>>} ELSE {<<>>}

\* response.data of /reverse
ReverseData == {[address |-> Place.address], [address |-> Hamlet.address],
                [address |-> Absent]}

FailStatuses == {404, 429, 500}

\* the ways a request fails
Failures == {AxiosResponseError(st) : st \in FailStatuses} \cup {AxiosNetworkError}

parseFloat(str) ==
    CASE str = "55.7558" -> Num(557558)
      [] str = "37.6173" -> Num(376173)
      [] OTHER -> NaN

toUpperCase(str) ==
    CASE str = "ru" -> "RU"
      [] OTHER -> str

\* a || b || c || d on strings: the first that is not empty, else the last
FirstTruthy(a, b, c, d) ==
    IF a # "" THEN a ELSE IF b # "" THEN b ELSE IF c # "" THEN c ELSE d

\* address?.city || address?.town || address?.village || fallback
AddressName(address, fallback) ==
    IF address = Absent THEN fallback
    ELSE FirstTruthy(Get(address).city, Get(address).town,
                     Get(address).village, fallback)

\* address?.country_code?.toUpperCase() || ''
AddressCountry(address) ==
    IF address = Absent THEN "" ELSE toUpperCase(Get(address).country_code)

\* (mutant) no check for an empty list: data.lat is read of undefined
getCoordinatesByCity_NoEmptyCheck(name, reply) ==
    IF ~reply.ok THEN Thrown(handleError(Get(reply.error)))
    ELSE LET list == Get(reply.value) IN
         IF Len(list) = 0 THEN Thrown(handleError(TypeError("lat")))
         ELSE Returned(Some([lat |-> parseFloat(list[1].lat),
                             lon |-> parseFloat(list[1].lon),
                             name |-> AddressName(list[1].address, name),
                             country |-> AddressCountry(list[1].address)]))

\* getCoordinatesByCity, from the reply of /search on: null is Absent
getCoordinatesByCity(name, reply) ==
    IF ~reply.ok THEN Thrown(handleError(Get(reply.error)))
    ELSE LET list == Get(reply.value) IN
         IF Len(list) = 0 THEN Returned(Absent)
         ELSE Returned(Some([lat |-> parseFloat(list[1].lat),
                             lon |-> parseFloat(list[1].lon),
                             name |-> AddressName(list[1].address, name),
                             country |-> AddressCountry(list[1].address)]))

\* (mutant) the catch clause rethrows as the other methods do
getCityNameByCoords_Rethrow(reply) ==
    IF ~reply.ok THEN Thrown(handleError(Get(reply.error)))
    ELSE Returned([city |-> AddressName(Get(reply.value).address, "Unknown"),
                   country |-> AddressCountry(Get(reply.value).address)])

\* getCityNameByCoords, from the reply of /reverse on: its catch clause
\* returns the sentinel label
getCityNameByCoords(reply) ==
    IF ~reply.ok THEN Returned([city |-> "Unknown", country |-> ""])
    ELSE Returned([city |-> AddressName(Get(reply.value).address, "Unknown"),
                   country |-> AddressCountry(Get(reply.value).address)])

(***************************************************************************)
(* The requests.                                                           *)
(***************************************************************************)
SearchRequest(name) ==
    [endpoint |-> "search", q |-> name, lat |-> NaN, lon |-> NaN,
     temperature_unit |-> "", windspeed_unit |-> ""]

ForecastRequest(lat, lon, u) ==
    [endpoint |-> "forecast", q |-> "", lat |-> lat, lon |-> lon,
     temperature_unit |-> IF u = "imperial" THEN "fahrenheit" ELSE "celsius",
     windspeed_unit |-> IF u = "imperial" THEN "mph" ELSE "ms"]

ReverseRequest(lat, lon) ==
    [endpoint |-> "reverse", q |-> "", lat |-> lat, lon |-> lon,
     temperature_unit |-> "", windspeed_unit |-> ""]

(***************************************************************************)
(* The calls.                                                              *)
(***************************************************************************)
\* (mutant) empty axes and a default snapshot stand in for absent parts
FormatBoth_Defaults(payload, location, hour, zone) ==
    LET p == [payload EXCEPT
                !.current_weather = IF @ = Absent THEN Some(CurrentWeather) ELSE @,
                !.hourly = IF @ = Absent THEN Some(HourlyAxis(0)) ELSE @,
                !.daily = IF @ = Absent THEN Some(DailyAxis(0, 0, 0)) ELSE @]
    IN  Returned([current |-> formatCurrentWeather(p, location, hour, zone),
                  forecast |-> formatForecast(p, location, zone)])

\* the return statement of getWeatherAndForecast: current is built first
FormatBoth(payload, location, hour, zone) ==
    IF formatCurrentWeatherThrows(payload) # ""
    THEN Thrown(TypeError(formatCurrentWeatherThrows(payload)))
    ELSE IF formatForecastThrows(payload) # ""
    THEN Thrown(TypeError(formatForecastThrows(payload)))
    ELSE Returned([current |-> formatCurrentWeather(payload, location, hour, zone),
                   forecast |-> formatForecast(payload, location, zone)])

\* the catch clause of a method: a thrown error leaves as handleError(error)
Catch(outcome) ==
    IF outcome.ok THEN outcome ELSE Thrown(handleError(Get(outcome.error)))

\* getWeatherAndForecast settles with the outcome; called from
\* getWeatherByCity, the outcome passes that method's catch clause as well
Settle(method, outcome) ==
    IF method = "getWeatherByCity" THEN Catch(Catch(outcome)) ELSE Catch(outcome)

\* no function of the class has been called
PureIdle ==
    /\ arg = 0
    /\ called = ""
    /\ returned = Absent

\* the refs as setup() creates them, for the default city
UiIdle ==
    /\ searchCity = "Moscow"
    /\ loading = FALSE
    /\ errorRef = Absent
    /\ currentWeather = Absent
    /\ forecast = Absent
    /\ selectedDay = Absent
    /\ calls = <<>>

Init ==
    /\ PureIdle
    /\ UiIdle
    /\ tz \in {-5, 0, 3}
    /\ currentHour = 0
    /\ pc = "idle"
    /\ entry = ""
    /\ cityName = ""
    /\ units = ""
    /\ coords = Absent
    /\ requests = <<>>
    /\ searchReply = Absent
    /\ data = Absent
    /\ reverseReply = Absent
    /\ result = Absent

CallGetWeatherByCity ==
    /\ pc = "idle"
    /\ \E name \in CityNames, u \in {"metric", "imperial"} :
        /\ entry' = "getWeatherByCity"
        /\ cityName' = name
        /\ units' = u
        /\ requests' = <<SearchRequest(name)>>
    /\ pc' = "awaitSearch"
    /\ UNCHANGED <<tz, currentHour, coords, searchReply, data, reverseReply, result>>
    /\ UNCHANGED <<pureVars, uiVars>>

CallGetCoordinatesByCity ==
    /\ pc = "idle"
    /\ \E name \in CityNames :
        /\ entry' = "getCoordinatesByCity"
        /\ cityName' = name
        /\ requests' = <<SearchRequest(name)>>
    /\ pc' = "awaitSearch"
    /\ UNCHANGED <<tz, currentHour, coords, searchReply, data, reverseReply, units,
                   result>>
    /\ UNCHANGED <<pureVars, uiVars>>

CallGetWeatherAndForecast ==
    /\ pc = "idle"
    /\ \E u \in {"metric", "imperial"} :
        /\ entry' = "getWeatherAndForecast"
        /\ units' = u
        /\ coords' = Some([lat |-> Num(557558), lon |-> Num(376173)])
        /\ requests' = <<ForecastRequest(Num(557558), Num(376173), u)>>
    /\ pc' = "awaitForecast"
    /\ UNCHANGED <<tz, currentHour, cityName, searchReply, data, reverseReply, result>>
    /\ UNCHANGED <<pureVars, uiVars>>

\* the continuation of getCoordinatesByCity after its await, and of
\* getWeatherByCity after it up to the next await
AfterSearch(reply) ==
    LET found == getCoordinatesByCity(cityName, reply) IN
    /\ searchReply' = Some(reply)
    /\ IF entry = "getCoordinatesByCity"
       THEN /\ result' = Some(found)
            /\ pc' = "done"
            /\ UNCHANGED <<coords, requests>>
       ELSE IF ~found.ok
       THEN /\ result' = Some(Catch(found))
            /\ pc' = "done"
            /\ UNCHANGED <<coords, requests>>
       ELSE IF Get(found.value) = Absent
       THEN /\ result' = Some(Catch(Thrown(NewError(MsgCityNotFound))))
            /\ pc' = "done"
            /\ UNCHANGED <<coords, requests>>
       ELSE LET c == Get(Get(found.value)) IN
            /\ coords' = Some([lat |-> c.lat, lon |-> c.lon])
            /\ requests' = Append(requests, ForecastRequest(c.lat, c.lon, units))
            /\ pc' = "awaitForecast"
            /\ UNCHANGED result
    /\ UNCHANGED <<tz, currentHour, entry, cityName, data, reverseReply, units>>
    /\ UNCHANGED <<pureVars, uiVars>>

SearchResponds ==
    /\ pc = "awaitSearch"
    /\ \E list \in SearchData(cityName) : AfterSearch(Returned(list))

SearchFails ==
    /\ pc = "awaitSearch"
    /\ \E e \in Failures : AfterSearch(Thrown(e))

\* the forecast arrived: getWeatherAndForecast goes on to getCityNameByCoords
ForecastResponds ==
    /\ pc = "awaitForecast"
    /\ \E payload \in Payloads : data' = Some(payload)
    /\ requests' = Append(requests,
                          ReverseRequest(Get(coords).lat, Get(coords).lon))
    /\ pc' = "awaitReverse"
    /\ UNCHANGED <<tz, currentHour, entry, cityName, coords, searchReply,
                   reverseReply, units, result>>
    /\ UNCHANGED <<pureVars, uiVars>>

\* (mutant) a failed forecast fetch is tried again
ForecastFails_Retry ==
    /\ pc = "awaitForecast"
    /\ Len(requests) < 4
    /\ requests' = Append(requests, requests[Len(requests)])
    /\ UNCHANGED <<tz, currentHour, pc, entry, cityName, coords, searchReply,
                   data, reverseReply, units, result>>
    /\ UNCHANGED <<pureVars, uiVars>>

ForecastFails ==
    /\ pc = "awaitForecast"
    /\ \E e \in Failures : result' = Some(Settle(entry, Thrown(e)))
    /\ pc' = "done"
    /\ UNCHANGED <<tz, currentHour, entry, cityName, coords, requests, searchReply,
                   data, reverseReply, units>>
    /\ UNCHANGED <<pureVars, uiVars>>

\* the continuation of getWeatherAndForecast after getCityNameByCoords
AfterReverse(reply) ==
    LET locationInfo == getCityNameByCoords(reply) IN
    /\ reverseReply' = Some(reply)
    /\ \E hour \in {0, ShortAxis, HoursPerDay - 1} :
        /\ currentHour' = hour
        /\ result' = Some(Settle(entry,
                        IF ~locationInfo.ok THEN locationInfo
                        ELSE FormatBoth(Get(data), Get(locationInfo.value), hour, tz)))
    /\ pc' = "done"
    /\ UNCHANGED <<tz, entry, cityName, coords, requests, searchReply, data, units>>
    /\ UNCHANGED <<pureVars, uiVars>>

ReverseResponds ==
    /\ pc = "awaitReverse"
    /\ \E body \in ReverseData : AfterReverse(Returned(body))

ReverseFails ==
    /\ pc = "awaitReverse"
    /\ \E e \in {AxiosResponseError(500), AxiosNetworkError} : AfterReverse(Thrown(e))

Next ==
    \/ CallGetWeatherByCity
    \/ CallGetCoordinatesByCity
    \/ CallGetWeatherAndForecast
    \/ SearchResponds
    \/ SearchFails
    \/ ForecastResponds
    \/ ForecastFails
    \/ ReverseResponds
    \/ ReverseFails

Spec == Init /\ [][Next]_vars

(***************************************************************************)
(* What the claims speak of.                                               *)
(***************************************************************************)
WeatherCall == entry \in {"getWeatherByCity", "getWeatherAndForecast"}

\* the call has settled
Done == pc = "done"

\* a weather call returned { current, forecast }
Succeeded == Done /\ WeatherCall /\ Get(result).ok

Value == Get(Get(result).value)
Days == Value.forecast.forecast
Daily == Get(Get(data).daily)
Hourly == Get(Get(data).hourly)

\* the instant of the hourly axis' entry at a one-based position, as the
\* provider writes it: local time of the environment
AxisInstant(i) == Hourly.time[i].day * 24 + Hourly.time[i].hour - tz

\* the instants of the samples of each returned day (hourly instants are
\* distinct, so the instant names the index of the hourly axis)
Buckets == [k \in 1..Len(Days) |->
              [j \in 1..Len(Days[k].hourly) |-> Days[k].hourly[j].dt.v]]

\* how many places of the buckets b hold the instant t
Occurrences(b, t) ==
    Cardinality({kj \in UNION {{<<k, j>> : j \in 1..Len(b[k])} : k \in 1..Len(b)} :
                    b[kj[1]][kj[2]] = t})

(***************************************************************************)
(* C1: formatForecast returns exactly min(5, length of the daily axis)     *)
(* days, the k-th built from the k-th entry of the daily axis (its date,   *)
(* its minimum and maximum, its weather code), so in ascending date order  *)
(* from the first entry on; a daily axis of 7 entries gives 5 days.        *)
(***************************************************************************)
C1_FiveDaysInOrder ==
    Succeeded =>
        /\ Len(Days) = IF Len(Daily.time) < 5 THEN Len(Daily.time) ELSE 5
        /\ \A k \in 1..Len(Days) :
            /\ Days[k].date = [kind |-> "Date", v |-> Daily.time[k].day * 24]
            /\ Days[k].tempMin.v = (Daily.temperature_2m_min[k] + 5) \div 10
            /\ Days[k].tempMax.v = (Daily.temperature_2m_max[k] + 5) \div 10
            /\ Days[k].icon = getWeatherIcon(Daily.weathercode[k])
        /\ \A j, k \in 1..Len(Days) : j < k => Days[j].date.v < Days[k].date.v

C1_Witness ==
    /\ Succeeded
    /\ Len(Daily.time) = 7
    /\ Len(Days) = 5
    /\ Days[5].date.v = (StartDay + 4) * 24

C3_SameCalendarDay ==
    Succeeded =>
        LET b == Buckets IN
        \A k \in 1..Len(b) :
            /\ \A j \in 1..Len(b[k]) :
                 \E i \in 1..Len(Hourly.time) :
                    /\ AxisInstant(i) = b[k][j]
                    /\ Hourly.time[i].day = Daily.time[k].day
            /\ \A j \in 1..(Len(b[k]) - 1) : b[k][j] <= b[k][j + 1]

\* the endpoints requested so far, in order
Endpoints == [r \in 1..Len(requests) |-> requests[r].endpoint]

\* the search endpoint answered with an empty list
ResolvedNothing ==
    /\ searchReply # Absent
    /\ Get(searchReply).ok
    /\ Get(Get(searchReply).value) = <<>>

\* the error the call failed with
Failure == Get(Get(result).error)

(***************************************************************************)
(* C4: in getWeatherByCity, once the resolution has yielded no location    *)
(* (for any name, the empty and the blank one included) the call has       *)
(* failed with the not-found error and the search is the only request it   *)
(* ever issued; a forecast request is only ever the second request, after  *)
(* a search that found a place, and carries that place's coordinates.      *)
(***************************************************************************)
C4_NotFoundBeforeFetch ==
    entry = "getWeatherByCity" =>
        /\ ResolvedNothing =>
            /\ pc = "done"
            /\ ~Get(result).ok
            /\ Failure.message = "City not found"
            /\ Endpoints = <<"search">>
        /\ \A r \in 1..Len(requests) :
            requests[r].endpoint = "forecast" =>
                /\ r = 2
                /\ requests[1].endpoint = "search"
                /\ searchReply # Absent
                /\ Get(searchReply).ok
                /\ Len(Get(Get(searchReply).value)) > 0
                /\ requests[r].lat =
                     parseFloat(Get(Get(searchReply).value)[1].lat)
                /\ requests[r].lon =
                     parseFloat(Get(Get(searchReply).value)[1].lon)

C4_Witness ==
    /\ entry = "getWeatherByCity"
    /\ cityName = "  "
    /\ ResolvedNothing
    /\ pc = "done"
    /\ Failure.message = "City not found"

(***************************************************************************)
(* C5: every error a facade method fails with is one of the taxonomy:      *)
(* rate-limited for a response with status 429, not-found or server-error  *)
(* for any other failing response, no-connection for a request without     *)
(* response, not-found for a city that does not resolve; never the raw     *)
(* message of a runtime error.                                             *)
(***************************************************************************)
C5_ErrorTaxonomy ==
    (Done /\ ~Get(result).ok) =>
        /\ Failure.name = "Error"
        /\ Failure.message \in
             {"Data not found", "Rate limit exceeded", "Server error",
              "No connection to server", "City not found"}

(***************************************************************************)
(* C6: when the reverse lookup fails, the weather call settles as it does  *)
(* when the lookup succeeds: it fails only if it fails then too, and       *)
(* otherwise returns the same current conditions and forecast, with the    *)
(* city "Unknown" and an empty country.                                    *)
(***************************************************************************)
Relabel(v, city, country) ==
    [current |-> [v.current EXCEPT !.cityName = city, !.country = country],
     forecast |-> [v.forecast EXCEPT !.city = city, !.country = country]]

\* what the formatting gives with the label of a successful reverse lookup
WithLabel == FormatBoth(Get(data), [city |-> "Moscow", country |-> "RU"],
                        currentHour, tz)

C6_ReverseLookupBestEffort ==
    (Done /\ reverseReply # Absent /\ ~Get(reverseReply).ok) =>
        /\ Get(result).ok = WithLabel.ok
        /\ Get(result).ok =>
            /\ Value.current.cityName = "Unknown"
            /\ Value.current.country = ""
            /\ Value.forecast.city = "Unknown"
            /\ Value.forecast.country = ""
            /\ Value = Relabel(Get(WithLabel.value), "Unknown", "")

C6_Witness ==
    /\ Succeeded
    /\ ~Get(reverseReply).ok
    /\ Value.current.cityName = "Unknown"
    /\ Len(Days) = 5

(***************************************************************************)
(* C7, as stated: a call issues at most two requests, the resolution and   *)
(* then the forecast fetch, none of them twice.                            *)
(***************************************************************************)
C7_AtMostTwoLookups ==
    /\ Len(requests) <= 2
    /\ \A r \in 1..Len(requests) : requests[r].endpoint \in {"search", "forecast"}
    /\ \A q, r \in 1..Len(requests) :
         requests[q].endpoint = requests[r].endpoint => q = r

(***************************************************************************)
(* C7, amended: a call issues at most three requests, in the order         *)
(* resolution (getWeatherByCity only), forecast fetch, reverse lookup, no  *)
(* endpoint twice; a failed or empty resolution and a failed forecast      *)
(* fetch settle the call with no further request.                          *)
(***************************************************************************)
C7_AtMostThreeLookups ==
    /\ Len(requests) <= 3
    /\ \A q, r \in 1..Len(requests) :
         requests[q].endpoint = requests[r].endpoint => q = r
    /\ entry = "getWeatherByCity" =>
         Endpoints \in {<<"search">>, <<"search", "forecast">>,
                        <<"search", "forecast", "reverse">>}
    /\ entry = "getWeatherAndForecast" =>
         Endpoints \in {<<"forecast">>, <<"forecast", "reverse">>}
    /\ entry = "getCoordinatesByCity" => Endpoints = <<"search">>
    /\ (searchReply # Absent /\ (~Get(searchReply).ok \/ ResolvedNothing)) =>
         /\ Done
         /\ Endpoints = <<"search">>
         /\ entry = "getWeatherByCity" => ~Get(result).ok
    /\ (Done /\ WeatherCall /\ data = Absent
           /\ \E r \in 1..Len(requests) : requests[r].endpoint = "forecast") =>
         /\ ~Get(result).ok
         /\ requests[Len(requests)].endpoint = "forecast"

C7_Witness ==
    /\ Done
    /\ entry = "getWeatherByCity"
    /\ Endpoints = <<"search", "forecast", "reverse">>

(***************************************************************************)
(* C8: when the hourly axis has no entry for the current local hour, the   *)
(* call fails; it never returns current conditions whose feels-like,       *)
(* humidity, pressure, cloud cover or visibility is not a number.          *)
(***************************************************************************)
C8_OutOfRangeFails ==
    /\ (Done /\ WeatherCall /\ data # Absent
            /\ formatCurrentWeatherThrows(Get(data)) = ""
            /\ Len(Hourly.time) <= currentHour) => ~Get(result).ok
    /\ Succeeded =>
        /\ IsNumber(Value.current.feelsLike)
        /\ IsNumber(Value.current.humidity)
        /\ IsNumber(Value.current.pressure)
        /\ IsNumber(Value.current.clouds)
        /\ IsNumber(Value.current.visibility)

(***************************************************************************)
(* C9: when the fetched payload lacks the snapshot, the hourly axis or the *)
(* daily axis, the call fails with the error of reading the absent part:   *)
(* no current conditions and no forecast are returned.                     *)
(***************************************************************************)
Lacking ==
    /\ data # Absent
    /\ \/ Get(data).current_weather = Absent
       \/ Get(data).hourly = Absent
       \/ Get(data).daily = Absent

C10_CrossDayExtremes ==
    (Succeeded /\ Len(Daily.time) > 0) =>
        /\ \E a \in 1..Len(Daily.temperature_2m_min) :
            /\ \A d \in 1..Len(Daily.temperature_2m_min) :
                 Daily.temperature_2m_min[a] <= Daily.temperature_2m_min[d]
            /\ Value.current.tempMin =
                 Num((Daily.temperature_2m_min[a] + 5) \div 10)
        /\ \E b \in 1..Len(Daily.temperature_2m_max) :
            /\ \A d \in 1..Len(Daily.temperature_2m_max) :
                 Daily.temperature_2m_max[b] >= Daily.temperature_2m_max[d]
            /\ Value.current.tempMax =
                 Num((Daily.temperature_2m_max[b] + 5) \div 10)
        /\ (Daily.temperature_2m_min = <<50, 180>>
                /\ Daily.temperature_2m_max = <<80, 220>>) =>
            /\ Value.current.tempMin = Num(5)
            /\ Value.current.tempMax = Num(22)

\* the coldest day is the seventh, outside the five days of the forecast
C10_Witness ==
    /\ Succeeded
    /\ Len(Daily.time) = 7
    /\ \A d \in 1..6 : Daily.temperature_2m_min[7] < Daily.temperature_2m_min[d]
    /\ \A d \in 2..7 : Daily.temperature_2m_max[1] > Daily.temperature_2m_max[d]
    /\ Value.current.tempMin = Num(-3)
    /\ Value.current.tempMax = Num(32)

(***************************************************************************)
(* C11: a day into which no hourly sample is bucketed is still a day of    *)
(* the forecast, and no returned day carries an average humidity, pressure *)
(* or wind speed that is not a number.  Stated for environments whose      *)
(* offset is not negative, where an empty bucket is the payload's own (its *)
(* hourly axis ends before the day) and not the date shift of C3.          *)
(***************************************************************************)
C11_NoSilentNaN ==
    (Succeeded /\ tz >= 0) =>
        /\ Len(Days) = IF Len(Daily.time) < 5 THEN Len(Daily.time) ELSE 5
        /\ \A k \in 1..Len(Days) :
            /\ IsNumber(Days[k].humidity)
            /\ IsNumber(Days[k].pressure)
            /\ IsNumber(Days[k].windSpeed)

(***************************************************************************)
(* The pure functions of the class, called with an integer argument.       *)
(***************************************************************************)
MaxArg == 400       \* the arguments are -MaxArg..MaxArg

directions == <<"N", "NE", "E", "SE", "S", "SW", "W", "NW">>

\* Math.round(deg / 45) of an integer deg: floor(deg / 45 + 0.5)
MathRoundBy45(deg) == (2 * deg + 45) \div 90

\* a % b of JavaScript, b > 0: the remainder has the sign of the dividend
Remainder(a, b) == IF a >= 0 THEN a % b ELSE 0 - ((0 - a) % b)

\* directions[index]: undefined (Absent) outside the array
getWindDirection(deg) ==
    LET index == Remainder(MathRoundBy45(deg), 8)
    IN  IF index >= 0 /\ index < Len(directions)
        THEN Some(directions[index + 1]) ELSE Absent

\* no call of the facade is under way
FacadeIdle ==
    /\ currentHour = 0
    /\ pc = "idle"
    /\ entry = ""
    /\ cityName = ""
    /\ units = ""
    /\ coords = Absent
    /\ requests = <<>>
    /\ searchReply = Absent
    /\ data = Absent
    /\ reverseReply = Absent
    /\ result = Absent

InitPure ==
    /\ tz = 0
    /\ FacadeIdle
    /\ UiIdle
    /\ arg \in (0 - MaxArg)..MaxArg
    /\ called = ""
    /\ returned = Absent

CallGetWindDirection ==
    /\ called = ""
    /\ called' = "getWindDirection"
    /\ returned' = Some(getWindDirection(arg))
    /\ UNCHANGED <<arg, facadeVars, uiVars>>

CallGetWeatherDescription ==
    /\ called = ""
    /\ called' = "getWeatherDescription"
    /\ returned' = Some(getWeatherDescription(arg))
    /\ UNCHANGED <<arg, facadeVars, uiVars>>

CallGetWeatherIcon ==
    /\ called = ""
    /\ called' = "getWeatherIcon"
    /\ returned' = Some(getWeatherIcon(arg))
    /\ UNCHANGED <<arg, facadeVars, uiVars>>

NextPure ==
    \/ CallGetWindDirection
    \/ CallGetWeatherDescription
    \/ CallGetWeatherIcon

SpecPure == InitPure /\ [][NextPure]_vars

(***************************************************************************)
(* C12: getWindDirection returns one of the eight compass labels for every *)
(* integer number of degrees, negative ones and those of 360 and more      *)
(* included; the label is that of the degrees plus 360, and its index is   *)
(* round(degrees / 45) modulo 8, taken into 0..7.                          *)
(***************************************************************************)
C12_WindDirectionPeriodic ==
    called = "getWindDirection" =>
        /\ Get(returned) # Absent
        /\ Get(returned) = getWindDirection(arg + 360)
        /\ Get(returned) =
             Some(<<"N", "NE", "E", "SE", "S", "SW", "W", "NW">>
                     [(((2 * arg + 45) \div 90) % 8) + 1])

(***************************************************************************)
(* C13: for every integer code outside the table getWeatherDescription     *)
(* returns "Unknown" and getWeatherIcon returns "01d"; for every code of   *)
(* the table, code 0 included, they return the table's own description and *)
(* icon.                                                                   *)
(***************************************************************************)
C13_ClassificationTotal ==
    LET table == {0, 1, 2, 3, 45, 48, 51, 53, 55, 61, 63, 65, 71, 73, 75, 77,
                  80, 81, 82, 95, 96, 99}
    IN  /\ called = "getWeatherDescription" =>
            /\ arg \in table =>
                /\ Get(returned) = weatherCodes[arg]
                /\ Get(returned) # "Unknown"
            /\ arg \notin table => Get(returned) = "Unknown"
            /\ arg = 0 => Get(returned) = "Clear"
            /\ arg = 99 => Get(returned) = "Heavy thunderstorm with hail"
        /\ called = "getWeatherIcon" =>
            /\ arg \in table => Get(returned) = iconMap[arg]
            /\ arg \notin table => Get(returned) = "01d"
            /\ arg = 0 => Get(returned) = "01d"
            /\ arg = 99 => Get(returned) = "11d"

C13_Witness ==
    /\ called = "getWeatherDescription"
    /\ arg = 0
    /\ returned = Some("Clear")

(***************************************************************************)
(* The WeatherDisplay component.  Every searchWeather that passed the      *)
(* blank check holds one getWeatherByCity call; its continuation runs when *)
(* the call settles, in whatever order the calls settle.                   *)
(***************************************************************************)
MaxSearches == 3    \* searchWeather invocations that reach the facade

MsgEnterCity == "Enter a city name"
MsgLoadFailed == "An error occurred while loading the weather"

\* String.prototype.trim() on the names typed
trim(str) == IF str = "  " THEN "" ELSE str

\* new Date().toDateString(): the forecast is asked for on its first day
Today == [kind |-> "day", v |-> StartDay]

\* getWeatherByCity from the three replies on, as the facade's steps compose
getWeatherByCity(name, search, payload, reverse, hour, zone) ==
    LET found == getCoordinatesByCity(name, search)
        locationInfo == getCityNameByCoords(reverse)
    IN  IF ~found.ok THEN Catch(found)
        ELSE IF Get(found.value) = Absent
        THEN Catch(Thrown(NewError(MsgCityNotFound)))
        ELSE IF ~payload.ok THEN Settle("getWeatherByCity", payload)
        ELSE Settle("getWeatherByCity",
                    IF ~locationInfo.ok THEN locationInfo
                    ELSE FormatBoth(Get(payload.value), Get(locationInfo.value),
                                    hour, zone))

\* what a call for a name may settle with
Outcomes(name, zone) ==
    {getWeatherByCity(name, search, payload, reverse, 0, zone) :
        search \in {Returned(list) : list \in SearchData(name)}
                      \cup {Thrown(AxiosNetworkError)},
        payload \in {Returned(MkPayload(1, ShortAxis, 1, 1))},
        reverse \in {Returned([address |-> Place.address]),
                     Returned([address |-> Hamlet.address])}}

\* forecast.value?.forecast.find(d => d.date.toDateString() === todayStr) || null
FindToday(days, zone) ==
    LET hits == {k \in 1..Len(days) : toDateString(days[k].date, zone) = Today}
    IN  IF hits = {} THEN Absent
        ELSE Some(days[CHOOSE k \in hits : \A j \in hits : k <= j])

\* mounted: setup() has run and onMounted has called searchWeather()
InitUI ==
    /\ tz \in {0 - 5, 0, 3}
    /\ FacadeIdle
    /\ PureIdle
    /\ searchCity = "Moscow"
    /\ loading = TRUE
    /\ errorRef = Absent
    /\ currentWeather = Absent
    /\ forecast = Absent
    /\ selectedDay = Absent
    /\ calls = <<[city |-> "Moscow", settled |-> Absent]>>

\* v-model="searchCity"
TypeCity ==
    /\ \E name \in CityNames \ {searchCity} : searchCity' = name
    /\ UNCHANGED <<loading, errorRef, currentWeather, forecast, selectedDay, calls>>
    /\ UNCHANGED <<facadeVars, pureVars>>

\* searchWeather up to its await
searchWeather ==
    /\ IF trim(searchCity) = ""
       THEN /\ errorRef' = Some(MsgEnterCity)
            /\ UNCHANGED <<loading, selectedDay, calls>>
       ELSE /\ Len(calls) < MaxSearches
            /\ loading' = TRUE
            /\ errorRef' = Absent
            /\ selectedDay' = Absent
            /\ calls' = Append(calls, [city |-> searchCity, settled |-> Absent])
    /\ UNCHANGED <<searchCity, currentWeather, forecast>>
    /\ UNCHANGED <<facadeVars, pureVars>>

\* @keyup.enter="searchWeather"
KeyupEnter == searchWeather

\* @click="searchWeather" of the button, :disabled="loading"
ClickSearchButton ==
    /\ loading = FALSE
    /\ searchWeather

\* searchWeather after its await: the try block, then finally
GetWeatherByCityResolves ==
    \E i \in 1..Len(calls) :
        /\ calls[i].settled = Absent
        /\ \E outcome \in Outcomes(calls[i].city, tz) :
            /\ outcome.ok
            /\ LET weatherData == Get(outcome.value) IN
                /\ currentWeather' = Some(weatherData.current)
                /\ forecast' = Some(weatherData.forecast)
                /\ selectedDay' = FindToday(weatherData.forecast.forecast, tz)
            /\ calls' = [calls EXCEPT ![i].settled = Some(outcome)]
        /\ loading' = FALSE
        /\ UNCHANGED <<searchCity, errorRef>>
        /\ UNCHANGED <<facadeVars, pureVars>>

\* searchWeather after its await: the catch block, then finally
GetWeatherByCityRejects ==
    \E i \in 1..Len(calls) :
        /\ calls[i].settled = Absent
        /\ \E outcome \in Outcomes(calls[i].city, tz) :
            /\ ~outcome.ok
            /\ LET err == Get(outcome.error) IN
                errorRef' = Some(IF err.message # "" THEN err.message
                                 ELSE MsgLoadFailed)
            /\ calls' = [calls EXCEPT ![i].settled = Some(outcome)]
        /\ currentWeather' = Absent
        /\ forecast' = Absent
        /\ loading' = FALSE
        /\ UNCHANGED <<searchCity, selectedDay>>
        /\ UNCHANGED <<facadeVars, pureVars>>

NextUI ==
    \/ TypeCity
    \/ KeyupEnter
    \/ ClickSearchButton
    \/ GetWeatherByCityResolves
    \/ GetWeatherByCityRejects

SpecUI == InitUI /\ [][NextUI]_vars

AllSettled == \A i \in 1..Len(calls) : calls[i].settled # Absent

LastSearch == Get(calls[Len(calls)].settled)

(***************************************************************************)
(* C14: whatever the order in which overlapping searches settle, loading   *)
(* is false only when no call is in flight, and once every call has        *)
(* settled the component shows the search started last: its result with no *)
(* error, or no data and its error message.  (The message of a blank       *)
(* submission, which starts no search, is left aside.)                     *)
(***************************************************************************)
C14_LastSearchWins ==
    errorRef # Some(MsgEnterCity) =>
        /\ loading = FALSE => AllSettled
        /\ AllSettled =>
            IF LastSearch.ok
            THEN /\ currentWeather = Some(Get(LastSearch.value).current)
                 /\ forecast = Some(Get(LastSearch.value).forecast)
                 /\ errorRef = Absent
            ELSE /\ currentWeather = Absent
                 /\ forecast = Absent
                 /\ errorRef = Some(Get(LastSearch.error).message)

====
